---- MODULE Spec2Model ----
(***************************************************************************)
(* Grove: the request path of HandleWeb (src/grove.go), the repository     *)
(* boundary walk SplitRepository, the permission gates CheckPerms and      *)
(* CheckPermBits, and the page multiplexer MakePage (src/webui.go).        *)
(*                                                                         *)
(* Go strings are modelled as sequences of one-character strings, so that  *)
(* path.Join, path.Dir, path.Base, strings.HasPrefix, strings.Contains,    *)
(* strings.SplitAfter(N) and strings.TrimRight are computed character by   *)
(* character as the library computes them.                                 *)
(***************************************************************************)
EXTENDS Integers, Sequences, FiniteSets, TLC

(* ------------------------------------------------------------------ *)
(* Character strings                                                    *)
(* ------------------------------------------------------------------ *)
Sl == "/"

sEmpty == << >>
sSlash == <<"/">>
sDot == <<".">>
sDotSlash == <<".", "/">>
sGit == <<".", "g", "i", "t">>
sGitSlash == <<".", "g", "i", "t", "/">>
sSlashGit == <<"/", ".", "g", "i", "t">>
sTree == <<"t", "r", "e", "e">>
sBlob == <<"b", "l", "o", "b">>
sRaw == <<"r", "a", "w">>
sTreeSlash == <<"t", "r", "e", "e", "/">>
sBlobSlash == <<"b", "l", "o", "b", "/">>
sHttp == <<"h", "t", "t", "p", ":", "/", "/">>
sQuestion == <<"?">>

\* strings.HasPrefix(s, prefix)
HasPrefix(s, prefix) ==
    /\ Len(prefix) <= Len(s)
    /\ SubSeq(s, 1, Len(prefix)) = prefix

\* strings.Index(s, sub), 1-based; 0 when sub does not occur in s
RECURSIVE IndexFrom(_, _, _)
IndexFrom(s, sub, k) ==
    IF k + Len(sub) - 1 > Len(s) THEN 0
    ELSE IF SubSeq(s, k, k + Len(sub) - 1) = sub THEN k
    ELSE IndexFrom(s, sub, k + 1)

Index(s, sub) == IndexFrom(s, sub, 1)

\* strings.Contains(s, sub)
Contains(s, sub) == Index(s, sub) # 0

\* strings.TrimRight(s, "/"): every trailing "/" is removed
RECURSIVE TrimRight(_)
TrimRight(s) ==
    IF s = sEmpty \/ s[Len(s)] # Sl THEN s
    ELSE TrimRight(SubSeq(s, 1, Len(s) - 1))

\* strings.SplitAfter(s, sep)[0]: s up to and including the first sep, or all
\* of s when sep does not occur
SplitAfterFirst(s, sep) ==
    LET k == Index(s, sep)
    IN  IF k = 0 THEN s ELSE SubSeq(s, 1, k + Len(sep) - 1)

\* strings.SplitAfterN(s, "/", 2)[1]: what follows the first "/" (the callers
\* append "/" first, so the separator is always there)
SplitAfterN2(s) ==
    LET k == Index(s, sSlash)
    IN  SubSeq(s, k + 1, Len(s))

(* ------------------------------------------------------------------ *)
(* Package path                                                         *)
(* ------------------------------------------------------------------ *)
\* the elements of s between "/" separators, empty elements included
RECURSIVE Elements(_)
Elements(s) ==
    LET k == Index(s, sSlash)
    IN  IF k = 0 THEN <<s>>
        ELSE <<SubSeq(s, 1, k - 1)>> \o Elements(SubSeq(s, k + 1, Len(s)))

\* path.Clean's element rules, applied left to right: empty and "." elements
\* are dropped, ".." removes the element before it (at the root it is dropped,
\* at the start of a relative path it is kept)
RECURSIVE CleanElements(_, _, _)
CleanElements(todo, done, rooted) ==
    IF todo = << >> THEN done
    ELSE LET e == Head(todo)
             rest == Tail(todo)
         IN  IF e = sEmpty \/ e = sDot THEN CleanElements(rest, done, rooted)
             ELSE IF e = <<".", ".">>
                  THEN IF done # << >> /\ done[Len(done)] # <<".", ".">>
                       THEN CleanElements(rest, SubSeq(done, 1, Len(done) - 1), rooted)
                       ELSE IF rooted THEN CleanElements(rest, done, rooted)
                       ELSE CleanElements(rest, Append(done, e), rooted)
                  ELSE CleanElements(rest, Append(done, e), rooted)

RECURSIVE JoinElements(_)
JoinElements(es) ==
    IF es = << >> THEN sEmpty
    ELSE IF Len(es) = 1 THEN es[1]
    ELSE es[1] \o sSlash \o JoinElements(Tail(es))

\* path.Clean(s)
Clean(s) ==
    IF s = sEmpty THEN sDot
    ELSE LET rooted == s[1] = Sl
             es == CleanElements(Elements(s), << >>, rooted)
             body == JoinElements(es)
         IN  IF rooted THEN sSlash \o body
             ELSE IF body = sEmpty THEN sDot ELSE body

\* path.Join(a, b): empty arguments are ignored, the rest joined by "/" and
\* cleaned; "" when both are empty
Join(a, b) ==
    IF a = sEmpty /\ b = sEmpty THEN sEmpty
    ELSE IF a = sEmpty THEN Clean(b)
    ELSE IF b = sEmpty THEN Clean(a)
    ELSE Clean(a \o sSlash \o b)

\* index of the last "/" among the first k characters of s, 0 when there is none
RECURSIVE LastSlashIn(_, _)
LastSlashIn(s, k) ==
    IF k = 0 THEN 0
    ELSE IF s[k] = Sl THEN k
    ELSE LastSlashIn(s, k - 1)

LastSlash(s) == LastSlashIn(s, Len(s))

\* path.Dir(s): all but the last element, cleaned
PathDir(s) == Clean(SubSeq(s, 1, LastSlash(s)))

\* path.Base(s): the last element; "." for "", "/" for a path of slashes
PathBase(s) ==
    IF s = sEmpty THEN sDot
    ELSE LET t == TrimRight(s)
         IN  IF t = sEmpty THEN sSlash
             ELSE SubSeq(t, LastSlash(t) + 1, Len(t))

(* ------------------------------------------------------------------ *)
(* Bounds and input sets                                                *)
(* ------------------------------------------------------------------ *)
\* longest run of path elements a request appends below a directory
MaxSuffix == 2

sA == <<"a">>
sB == <<"b">>
sH == <<".", "h">>
sF == <<"f">>
sHost == <<"h">>

\* the directories of the served tree, as element lists below handler.Dir
dRoot == << >>
dA == <<sA>>
dAB == <<sA, sB>>
dH == <<sH>>
Dirs == {dRoot, dA, dAB, dH}
\* a regular file of the served tree
Files == {<<sA, sF>>}
EntryNames == {sA, sB, sH, sF, sGit}

\* permission bits: rwxr-xr-x, rwx------
Mode755 == 7 * 64 + 5 * 8 + 5
Mode700 == 7 * 64

\* serving roots (handler.Dir is cleaned and absolute, src/grove.go:79-98)
ServingRoots == {<<"/", "s">>, <<"/">>}
\* values of Perms documented at src/grove.go:27-30
Thresholds == {0, 1, 2}
Hosts == {sHost, sRaw}
SufNames == {sTree, sBlob, sRaw}
Suffixes == UNION {[1..n -> SufNames] : n \in 0..MaxSuffix}
ShortSuffixes == {<< >>} \cup {<<n>> : n \in SufNames}
ReqPrefixes == {<<>>, <<sA>>, <<sA, sB>>, <<sH>>}

StatusOK == 200
StatusForbidden == 403
StatusNotFound == 404
StatusInternalServerError == 500

\* os.ModePerm: the nine permission bits Mode().Perm() keeps
ModePerm == 511
\* the entries the gates are applied to on their own
GateNames == {sA, sH, sGit}
GateInfos == [name : GateNames, isDir : BOOLEAN, perm : 0..ModePerm]

NoInfo == [name |-> sEmpty, isDir |-> FALSE, perm |-> 0]

(* ------------------------------------------------------------------ *)
(* State                                                                *)
(* ------------------------------------------------------------------ *)
VARIABLES
    handlerDir,     \* handler.Dir, the serving root
    Perms,          \* the threshold: 0 other, 1 group, 2 owner
    git,            \* the directories that hold a .git entry
    perm,           \* permission bits of each directory
    gone,           \* the directories that have been removed
    pc,             \* position of the request being served
    reqPath,        \* req.URL.Path
    reqHost,        \* req.Host, read when the page is made
    p,              \* the filesystem path of the request
    gitPath,        \* the path the git branch of HandleWeb stats
    repository,     \* SplitRepository's cursor and result
    file,           \* SplitRepository's accumulated suffix and result
    isFile,
    status,
    i,              \* SplitRepository's loop counter
    info,           \* the os.FileInfo last handed to a gate
    gate,           \* which gate that was: "none", "CheckPerms", "CheckPermBits"
    canServe,       \* that gate's answer
    approved,       \* the directory CheckPerms accepted at line 234, or ""
    served,         \* what answered: "none", "cgi", "error" or a page handler
    sent,           \* the HTTP status of the response
    listing         \* the names MakeDirPage listed

vars == <<handlerDir, Perms, git, perm, gone, pc, reqPath, reqHost, p, gitPath,
          repository, file, isFile, status, i, info, gate, canServe, approved,
          served, sent, listing>>

config == <<handlerDir, Perms, git, perm, gone>>

(* ------------------------------------------------------------------ *)
(* The filesystem                                                       *)
(* ------------------------------------------------------------------ *)
\* the elements of an absolute path, as the kernel resolves it
AbsElements(path) == CleanElements(Elements(path), << >>, TRUE)

IsPrefixSeq(a, b) == Len(a) <= Len(b) /\ SubSeq(b, 1, Len(a)) = a

\* rel or a directory above it has been removed
Removed(rel) == \E k \in 0..Len(rel) : SubSeq(rel, 1, k) \in gone

\* the entry at an element list below the serving root. A .git entry and a
\* file carry the bits of the directory they are in; nothing is left of a
\* removed directory.
Lookup(rel) ==
    IF Removed(rel)
    THEN [ok |-> FALSE, isDir |-> FALSE, perm |-> 0]
    ELSE IF rel \in Dirs
    THEN [ok |-> TRUE, isDir |-> TRUE, perm |-> perm[rel]]
    ELSE IF rel # << >> /\ rel[Len(rel)] = sGit /\ SubSeq(rel, 1, Len(rel) - 1) \in git
    THEN [ok |-> TRUE, isDir |-> TRUE, perm |-> perm[SubSeq(rel, 1, Len(rel) - 1)]]
    ELSE IF rel \in Files
    THEN [ok |-> TRUE, isDir |-> FALSE, perm |-> perm[SubSeq(rel, 1, Len(rel) - 1)]]
    ELSE [ok |-> FALSE, isDir |-> FALSE, perm |-> 0]

\* os.Stat(path): err == nil is .ok; the FileInfo is .fi, whose Name() is the
\* last element of the path that was given. Nothing outside the serving root
\* is part of the model.
Stat(path) ==
    LET es == AbsElements(path)
        root == AbsElements(handlerDir)
    IN  IF ~IsPrefixSeq(root, es)
        THEN [ok |-> FALSE, fi |-> NoInfo]
        ELSE LET e == Lookup(SubSeq(es, Len(root) + 1, Len(es)))
             IN  IF e.ok
                 THEN [ok |-> TRUE,
                       fi |-> [name |-> PathBase(path), isDir |-> e.isDir, perm |-> e.perm]]
                 ELSE [ok |-> FALSE, fi |-> NoInfo]

\* f.Readdirnames(0) of a directory
Readdirnames(path) ==
    {n \in EntryNames : Stat(path \o sSlash \o n).ok}

(* ------------------------------------------------------------------ *)
(* The permission gates                                                 *)
(* ------------------------------------------------------------------ *)
RECURSIVE BitAnd(_, _)
BitAnd(a, b) ==
    IF a = 0 \/ b = 0 THEN 0
    ELSE (a % 2) * (b % 2) + 2 * BitAnd(a \div 2, b \div 2)

RECURSIVE ShiftLeft(_, _)
ShiftLeft(a, n) == IF n = 0 THEN a ELSE ShiftLeft(2 * a, n - 1)

\* CheckPermBits: the mask 0004 (0005 for a directory) shifted to the class
\* Perms selects; any common bit lets the entry through
CheckPermBits(fi) ==
    LET permBits == IF fi.isDir THEN 5 ELSE 4
    IN  BitAnd(fi.perm, ShiftLeft(permBits, Perms * 3)) > 0

\* CheckPerms without its test of the name
CheckPermsBitsOnly(fi) == CheckPermBits(fi)

\* CheckPerms: no name that starts with ".", then CheckPermBits
CheckPerms(fi) ==
    IF HasPrefix(fi.name, sDot) THEN FALSE ELSE CheckPermBits(fi)


(* ------------------------------------------------------------------ *)
(* Requests                                                             *)
(* ------------------------------------------------------------------ *)
\* no directory
NoDir == <<<<"-">>>>

\* req.URL.Path of a request for the given elements
UrlPath(elems, slash) ==
    IF elems = << >> THEN sSlash
    ELSE sSlash \o JoinElements(elems) \o (IF slash THEN sSlash ELSE sEmpty)

\* req.URL.String()
UrlString(path, query) ==
    IF query = sEmpty THEN path ELSE path \o sQuestion \o query

\* The requests: the URLs the pages link to (a directory with or without its
\* trailing slash, as MakeDirPage links it; a tree or blob path, as
\* MakeTreePage links it), the URLs of a git client below a .git directory,
\* and a URL whose query holds ".git/".
ViewRequests ==
    {[path |-> UrlPath(pre \o suf, slash), query |-> sEmpty] :
        pre \in ReqPrefixes, suf \in Suffixes, slash \in {FALSE}}
    \cup {[path |-> UrlPath(pre, TRUE), query |-> sEmpty] : pre \in ReqPrefixes}

GitRequests ==
    {[path |-> UrlPath(pre \o <<sGit>> \o suf, slash), query |-> sEmpty] :
        pre \in ReqPrefixes, suf \in ShortSuffixes, slash \in BOOLEAN}

QueryRequests ==
    {[path |-> UrlPath(pre, FALSE), query |-> <<"r", "=", ".", "g", "i", "t", "/">>] :
        pre \in ReqPrefixes}

Requests == ViewRequests \cup GitRequests \cup QueryRequests

Init ==
    /\ handlerDir \in ServingRoots
    /\ Perms \in Thresholds
    /\ git \in SUBSET Dirs
    /\ \E low \in Dirs \cup {NoDir} :
          perm = [d \in Dirs |-> IF d = low THEN Mode700 ELSE Mode755]
    /\ gone = {}
    /\ pc = "idle"
    /\ reqPath = sEmpty
    /\ reqHost = sEmpty
    /\ p = sEmpty
    /\ gitPath = sEmpty
    /\ repository = sEmpty
    /\ file = sEmpty
    /\ isFile = FALSE
    /\ status = 0
    /\ i = 0
    /\ info = NoInfo
    /\ gate = "none"
    /\ canServe = FALSE
    /\ approved = sEmpty
    /\ served = "none"
    /\ sent = 0
    /\ listing = {}

\* HandleWeb handing every stat'ed git path to the CGI handler
GitGateOpen(fi) == TRUE

\* the gate HandleWeb puts the stat'ed git path through
GitGate(fi) == CheckPermBits(fi)

\* HandleWeb, the branch of a URL that contains ".git/": stat the path up to
\* the first ".git/", 404 when that fails, 403 when CheckPermBits refuses it,
\* the CGI handler otherwise
HandleGit(path, query) ==
    /\ pc = "idle"
    /\ Contains(UrlString(path, query), sGitSlash)
    /\ LET fsPath == Join(handlerDir, path)
           gp == SplitAfterFirst(fsPath, sGitSlash)
           st == Stat(gp)
       IN  /\ reqPath' = path
           /\ p' = fsPath
           /\ gitPath' = gp
           /\ info' = st.fi
           /\ IF ~st.ok
              THEN /\ gate' = "none"
                   /\ canServe' = FALSE
                   /\ served' = "error"
                   /\ sent' = StatusNotFound
              ELSE /\ gate' = "CheckPermBits"
                   /\ canServe' = GitGate(st.fi)
                   /\ served' = IF GitGate(st.fi) THEN "cgi" ELSE "error"
                   /\ sent' = IF GitGate(st.fi) THEN 0 ELSE StatusForbidden
    /\ pc' = "done"
    /\ reqHost' = sEmpty
    /\ repository' = sEmpty
    /\ file' = sEmpty
    /\ isFile' = FALSE
    /\ status' = 0
    /\ i' = 0
    /\ approved' = sEmpty
    /\ listing' = {}
    /\ UNCHANGED config

\* HandleWeb, any other URL: SplitRepository(handler.Dir, p) is entered with
\* repository = p, file = "" and i = 0
HandleView(path, query) ==
    /\ pc = "idle"
    /\ ~Contains(UrlString(path, query), sGitSlash)
    /\ reqPath' = path
    /\ p' = Join(handlerDir, path)
    /\ repository' = Join(handlerDir, path)
    /\ file' = sEmpty
    /\ isFile' = FALSE
    /\ status' = 0
    /\ i' = 0
    /\ pc' = "loop"
    /\ reqHost' = sEmpty
    /\ gitPath' = sEmpty
    /\ info' = NoInfo
    /\ gate' = "none"
    /\ canServe' = FALSE
    /\ approved' = sEmpty
    /\ served' = "none"
    /\ sent' = 0
    /\ listing' = {}
    /\ UNCHANGED config

\* the step to the parent taken on the first pass too
WalkCursorAlwaysUp == PathDir(repository)

\* the suffix never accumulated
WalkFileKept == file

\* the stop test against a toplevel that was given with a trailing "/"
AtToplevelUncleaned(cursor) == cursor = handlerDir \o sSlash

\* the step to the parent never taken
WalkCursorStay == repository

\* SplitRepository's step to the parent, taken on every pass but the first:
\* the directory the pass looks at
WalkCursor == IF i # 0 THEN PathDir(repository) ELSE repository

\* and the suffix it has accumulated
WalkFile == IF i # 0 THEN Join(PathBase(repository), file) ELSE file

\* SplitRepository's stop test
AtToplevel(cursor) == cursor = handlerDir

\* SplitRepository, one pass of the loop up to the stat of the .git entry:
\* step to the parent unless this is the first pass; stop with 200 at
\* toplevel, returning the path joined back together and an empty file; go
\* round again when there is no .git entry
SplitLoop ==
    /\ pc = "loop"
    /\ LET cursor == WalkCursor
           suffix == WalkFile
       IN  IF AtToplevel(cursor)
           THEN /\ repository' = Join(cursor, suffix)
                /\ file' = sEmpty
                /\ status' = StatusOK
                /\ pc' = "resolved"
                /\ i' = i
           ELSE IF ~Stat(cursor \o sSlashGit).ok
           THEN /\ repository' = cursor
                /\ file' = suffix
                /\ i' = i + 1
                /\ pc' = "loop"
                /\ status' = status
           ELSE /\ repository' = cursor
                /\ file' = suffix
                /\ i' = i
                /\ pc' = "found"
                /\ status' = status
    /\ UNCHANGED <<config, reqPath, reqHost, p, gitPath, isFile, info, gate,
                   canServe, approved, served, sent, listing>>

\* the suffix rules with the rest of a blob path left untrimmed
ClassifyFileNoTrim(f) ==
    IF Len(f) = 0
    THEN [file |-> f, isFile |-> FALSE, found |-> TRUE]
    ELSE LET fs == f \o sSlash
         IN  IF HasPrefix(fs, sBlobSlash)
             THEN [file |-> SplitAfterN2(fs), isFile |-> TRUE, found |-> TRUE]
             ELSE IF HasPrefix(fs, sTreeSlash)
             THEN [file |-> IF Len(SplitAfterN2(fs)) = 0 THEN sDotSlash
                            ELSE SplitAfterN2(fs),
                   isFile |-> FALSE, found |-> TRUE]
             ELSE [file |-> fs, isFile |-> FALSE, found |-> FALSE]

\* the suffix rules of SplitRepository: the file and isFile it returns, and
\* whether the suffix is accepted
ClassifyFile(f) ==
    IF Len(f) = 0
    THEN [file |-> f, isFile |-> FALSE, found |-> TRUE]
    ELSE LET fs == f \o sSlash
         IN  IF HasPrefix(fs, sBlobSlash)
             THEN [file |-> TrimRight(SplitAfterN2(fs)), isFile |-> TRUE, found |-> TRUE]
             ELSE IF HasPrefix(fs, sTreeSlash)
             THEN [file |-> IF Len(SplitAfterN2(fs)) = 0 THEN sDotSlash
                            ELSE SplitAfterN2(fs),
                   isFile |-> FALSE, found |-> TRUE]
             ELSE [file |-> fs, isFile |-> FALSE, found |-> FALSE]

\* SplitRepository gating the directory on its bits alone
RepositoryGateBitsOnly(fi) == CheckPermBits(fi)

\* the stat failure answered as if the directory had not been found
StatFailureNotFound == StatusNotFound

\* SplitRepository's status when the stat of the directory fails
StatFailureStatus == StatusInternalServerError

\* the gate SplitRepository puts the directory of a .git entry through
RepositoryGate(fi) == CheckPerms(fi)

\* SplitRepository once the .git entry is there: stat the directory (500 on
\* failure), 403 unless the gate lets it through, then the suffix rules
SplitFound ==
    /\ pc = "found"
    /\ LET st == Stat(repository)
           c == ClassifyFile(file)
       IN  IF ~st.ok
           THEN /\ status' = StatFailureStatus
                /\ UNCHANGED <<file, isFile, info, gate, canServe, approved>>
           ELSE /\ info' = st.fi
                /\ gate' = "CheckPerms"
                /\ canServe' = RepositoryGate(st.fi)
                /\ IF ~RepositoryGate(st.fi)
                   THEN /\ status' = StatusForbidden
                        /\ UNCHANGED <<file, isFile, approved>>
                   ELSE /\ approved' = repository
                        /\ file' = c.file
                        /\ isFile' = c.isFile
                        /\ status' = IF c.found THEN StatusOK ELSE StatusNotFound
    /\ pc' = "resolved"
    /\ UNCHANGED <<config, reqPath, reqHost, p, gitPath, repository, i,
                   served, sent, listing>>

\* isGit(repository)
isGit(repo) == Stat(Join(repo, sGit)).ok

\* pageinfo.URL
PageURL(host, path) == sHttp \o host \o TrimRight(path) \o sSlash

\* MakePage's switch with the "blob" case ahead of the "tree" case
PageHandlerBlobFirst(isgit, url) ==
    IF ~isgit THEN "MakeDirPage"
    ELSE IF Contains(url, sBlob) THEN "MakeFilePage"
    ELSE IF Contains(url, sTree) THEN "MakeTreePage"
    ELSE IF Contains(url, sRaw) THEN "MakeRawPage"
    ELSE "MakeGitPage"

\* MakePage's switch: the first case that matches
PageHandler(isgit, url) ==
    IF ~isgit THEN "MakeDirPage"
    ELSE IF Contains(url, sTree) THEN "MakeTreePage"
    ELSE IF Contains(url, sBlob) THEN "MakeFilePage"
    ELSE IF Contains(url, sRaw) THEN "MakeRawPage"
    ELSE "MakeGitPage"

\* MakeDirPage's loop body: an entry is listed when its stat succeeds and it
\* passes CheckPerms
ListsEntry(st) == st.ok /\ CheckPerms(st.fi)

\* MakeDirPage's loop over the names of the directory
DirList(directory) ==
    {n \in Readdirnames(directory) : ListsEntry(Stat(directory \o sSlash \o n))}

\* MakeDirPage: 404 when the directory cannot be stat'ed, 403 when CheckPerms
\* refuses it, 500 when it cannot be read as a directory, else the listing
MakeDirPage(directory) ==
    LET st == Stat(directory)
    IN  IF ~st.ok THEN [sent |-> StatusNotFound, listing |-> {}]
        ELSE IF ~CheckPerms(st.fi) THEN [sent |-> StatusForbidden, listing |-> {}]
        ELSE IF ~st.fi.isDir THEN [sent |-> StatusInternalServerError, listing |-> {}]
        ELSE [sent |-> StatusOK, listing |-> DirList(directory)]

\* HandleWeb after SplitRepository: the error of a status other than 200, else
\* the page MakePage's switch selects
Dispatch(host) ==
    /\ pc = "resolved"
    /\ reqHost' = host
    /\ IF status # StatusOK
       THEN /\ served' = "error"
            /\ sent' = status
            /\ listing' = {}
       ELSE LET h == PageHandler(isGit(repository), PageURL(host, reqPath))
            IN  /\ served' = h
                /\ IF h = "MakeDirPage"
                   THEN /\ sent' = MakeDirPage(repository).sent
                        /\ listing' = MakeDirPage(repository).listing
                   ELSE /\ sent' = StatusOK
                        /\ listing' = {}
    /\ pc' = "done"
    /\ UNCHANGED <<config, reqPath, p, gitPath, repository, file, isFile,
                   status, i, info, gate, canServe, approved>>

\* the response is written and HandleWeb returns: nothing of the request is
\* kept
Finish ==
    /\ pc = "done"
    /\ pc' = "idle"
    /\ reqPath' = sEmpty
    /\ reqHost' = sEmpty
    /\ p' = sEmpty
    /\ gitPath' = sEmpty
    /\ repository' = sEmpty
    /\ file' = sEmpty
    /\ isFile' = FALSE
    /\ status' = 0
    /\ i' = 0
    /\ info' = NoInfo
    /\ gate' = "none"
    /\ canServe' = FALSE
    /\ approved' = sEmpty
    /\ served' = "none"
    /\ sent' = 0
    /\ listing' = {}
    /\ UNCHANGED config

Next ==
    \/ \E r \in Requests : HandleGit(r.path, r.query)
    \/ \E r \in Requests : HandleView(r.path, r.query)
    \/ SplitLoop
    \/ SplitFound
    \/ \E host \in Hosts : Dispatch(host)
    \/ Finish

Spec == Init /\ [][Next]_vars

(* ------------------------------------------------------------------ *)
(* The gates on their own: every entry name, kind, permission bits and  *)
(* threshold                                                            *)
(* ------------------------------------------------------------------ *)
InitGate ==
    /\ handlerDir = <<"/", "s">>
    /\ Perms \in Thresholds
    /\ git = {}
    /\ perm = [d \in Dirs |-> Mode755]
    /\ gone = {}
    /\ pc = "gate"
    /\ reqPath = sEmpty
    /\ reqHost = sEmpty
    /\ p = sEmpty
    /\ gitPath = sEmpty
    /\ repository = sEmpty
    /\ file = sEmpty
    /\ isFile = FALSE
    /\ status = 0
    /\ i = 0
    /\ info \in GateInfos
    /\ gate = "none"
    /\ canServe = FALSE
    /\ approved = sEmpty
    /\ served = "none"
    /\ sent = 0
    /\ listing = {}

\* CheckPermBits(info)
GateBits ==
    /\ pc = "gate"
    /\ gate' = "CheckPermBits"
    /\ canServe' = CheckPermBits(info)
    /\ pc' = "gated"
    /\ UNCHANGED <<config, reqPath, reqHost, p, gitPath, repository, file,
                   isFile, status, i, info, approved, served, sent, listing>>

\* CheckPerms(info)
GateFull ==
    /\ pc = "gate"
    /\ gate' = "CheckPerms"
    /\ canServe' = CheckPerms(info)
    /\ pc' = "gated"
    /\ UNCHANGED <<config, reqPath, reqHost, p, gitPath, repository, file,
                   isFile, status, i, info, approved, served, sent, listing>>

\* MakeDirPage's loop body on a directory whose one entry is info
GateList ==
    /\ pc = "gate"
    /\ listing' = IF ListsEntry([ok |-> TRUE, fi |-> info]) THEN {info.name} ELSE {}
    /\ pc' = "listed"
    /\ UNCHANGED <<config, reqPath, reqHost, p, gitPath, repository, file,
                   isFile, status, i, info, gate, canServe, approved, served, sent>>

NextGate == GateBits \/ GateFull \/ GateList

SpecGate == InitGate /\ [][NextGate]_vars

(* ------------------------------------------------------------------ *)
(* Requests served while the tree is changed under them: a directory    *)
(* may be removed between any two steps of a request                    *)
(* ------------------------------------------------------------------ *)
\* most directories removed in one run
MaxRemoved == 1

InitRace ==
    /\ handlerDir \in ServingRoots
    /\ Perms = 0
    /\ git \in SUBSET Dirs
    /\ perm = [d \in Dirs |-> Mode755]
    /\ gone = {}
    /\ pc = "idle"
    /\ reqPath = sEmpty
    /\ reqHost = sEmpty
    /\ p = sEmpty
    /\ gitPath = sEmpty
    /\ repository = sEmpty
    /\ file = sEmpty
    /\ isFile = FALSE
    /\ status = 0
    /\ i = 0
    /\ info = NoInfo
    /\ gate = "none"
    /\ canServe = FALSE
    /\ approved = sEmpty
    /\ served = "none"
    /\ sent = 0
    /\ listing = {}

\* another process removes a directory of the served tree, with all below it
RemoveDir(d) ==
    /\ d \notin gone
    /\ Cardinality(gone) < MaxRemoved
    /\ gone' = gone \cup {d}
    /\ UNCHANGED <<handlerDir, Perms, git, perm, pc, reqPath, reqHost, p,
                   gitPath, repository, file, isFile, status, i, info, gate,
                   canServe, approved, served, sent, listing>>

NextRace ==
    \/ Next
    \/ \E d \in Dirs \ {dRoot} : RemoveDir(d)

SpecRace == InitRace /\ [][NextRace]_vars

(* ------------------------------------------------------------------ *)
(* Properties                                                           *)
(* ------------------------------------------------------------------ *)
\* path is the serving root or lies below it
UnderRoot(path) ==
    \/ path = handlerDir
    \/ HasPrefix(path, IF handlerDir = sSlash THEN sSlash ELSE handlerDir \o sSlash)

\* the directories from the requested path up to, and excluding, the serving
\* root that hold a .git entry, each as its absolute path
MarkerDirsOnPath ==
    LET pe == AbsElements(p)
        n == Len(AbsElements(handlerDir))
    IN  {sSlash \o JoinElements(SubSeq(pe, 1, k)) :
            k \in {j \in (n + 1)..Len(pe) : SubSeq(pe, n + 1, j) \in git}}

\* the longest path of a set
Deepest(S) == CHOOSE c \in S : \A d \in S : Len(d) <= Len(c)

\* what follows base and its separator in path
RelSuffix(path, base) ==
    IF path = base THEN sEmpty
    ELSE SubSeq(path, Len(base) + (IF base = sSlash THEN 1 ELSE 2), Len(path))

\* the elements of a relative path after its first
RestElements(str) == Tail(Elements(str))

GitViews == {"MakeTreePage", "MakeFilePage", "MakeRawPage", "MakeGitPage"}

\* C1: the directory SplitRepository looks at, and the repository it returns
\* whatever the status, is the serving root or a descendant of it
Containment ==
    pc \in {"loop", "found", "resolved"} => UnderRoot(repository)

\* C1 witness: a resolution that returned a proper descendant of the serving
\* root while the serving root itself holds a .git entry
ContainmentWitness ==
    /\ pc = "resolved"
    /\ repository # handlerDir
    /\ dRoot \in git
    /\ status = StatusForbidden

\* C2: CheckPerms refuses every entry whose name starts with ".", whatever
\* its bits, its kind and the threshold; an entry MakeDirPage lists has a
\* name that does not start with "." and passes CheckPermBits
HiddenSuppression ==
    /\ (gate = "CheckPerms" /\ info.name[1] = ".") => ~canServe
    /\ \A n \in listing :
          /\ n[1] # "."
          /\ pc = "listed" => (n = info.name /\ CheckPermBits(info))

\* C2 witness: CheckPerms was asked about a directory named ".h" with all
\* nine bits set
HiddenSuppressionWitness ==
    /\ gate = "CheckPerms"
    /\ info = [name |-> sH, isDir |-> TRUE, perm |-> ModePerm]

\* C3 as claimed: at a directory that holds a .git entry, SplitRepository
\* answers 403 exactly when CheckPermBits refuses the directory
MarkerGateBitsOnly ==
    (pc = "resolved" /\ gate = "CheckPerms")
        => (status = StatusForbidden <=> ~CheckPermBits(info))

\* C3: at a directory that holds a .git entry, SplitRepository answers 403
\* exactly when the name of the directory starts with "." or CheckPermBits
\* refuses its bits; info is that directory's
MarkerGateFull ==
    (pc = "resolved" /\ gate = "CheckPerms")
        => /\ info.name = PathBase(repository)
           /\ info.perm = perm[SubSeq(AbsElements(repository),
                                      Len(AbsElements(handlerDir)) + 1,
                                      Len(AbsElements(repository)))]
           /\ status = StatusForbidden
                 <=> (info.name[1] = "." \/ ~CheckPermBits(info))

\* C3 witness: a directory named ".h" whose bits pass was refused
MarkerGateWitness ==
    /\ pc = "resolved"
    /\ gate = "CheckPerms"
    /\ info.name = sH
    /\ CheckPermBits(info)
    /\ status = StatusForbidden

\* C4: a request whose URL contains ".git/" reaches the CGI handler only if
\* CheckPermBits lets through the entry at the filesystem path cut after its
\* first ".git/"; when it refuses the entry the answer is 403. An entry with
\* bits 0700 is refused under threshold 0 and let through under threshold 2.
GitDelegateGated ==
    gitPath # sEmpty =>
        LET k == Index(p, sGitSlash)
            st == Stat(gitPath)
        IN  /\ IF k = 0 THEN gitPath = p
               ELSE /\ HasPrefix(p, gitPath)
                    /\ Len(gitPath) = k + 4
                    /\ SubSeq(gitPath, k, k + 4) = sGitSlash
            /\ served \in {"cgi", "error"}
            /\ served = "cgi" => (st.ok /\ CheckPermBits(st.fi))
            /\ (st.ok /\ ~CheckPermBits(st.fi))
                  => (served = "error" /\ sent = StatusForbidden)
            /\ (st.ok /\ st.fi.perm = Mode700 /\ Perms = 0)
                  => (served = "error" /\ sent = StatusForbidden)
            /\ (st.ok /\ st.fi.perm = Mode700 /\ Perms = 2) => served = "cgi"

\* C4 witness: a request below a .git directory with bits 0700 was answered
\* 403 under threshold 0
GitDelegateWitness ==
    /\ gitPath # sEmpty
    /\ Contains(reqPath, sGitSlash)
    /\ Perms = 0
    /\ info.perm = Mode700
    /\ served = "error"
    /\ sent = StatusForbidden

\* C5: when directories from the requested path up to the serving root hold
\* a .git entry, the repository SplitRepository returns is the deepest of
\* them
InnermostWins ==
    (pc = "resolved" /\ MarkerDirsOnPath # {})
        => repository = Deepest(MarkerDirsOnPath)

\* C5 witness: two nested directories hold a .git entry and the resolution
\* succeeded inside the inner one
InnermostWinsWitness ==
    /\ pc = "resolved"
    /\ Cardinality(MarkerDirsOnPath) = 2
    /\ status = StatusOK
    /\ isFile

\* C6 as claimed: with no .git entry from the requested path up to the
\* serving root, the result is 200 with the serving root as the repository
\* and the path below it as the file
NoMarkerReturnsRoot ==
    (pc = "resolved" /\ p # handlerDir /\ MarkerDirsOnPath = {})
        => /\ status = StatusOK
           /\ repository = handlerDir
           /\ file = RelSuffix(p, handlerDir)
           /\ ~isGit(repository)

\* C6: with no .git entry from the requested path up to the serving root,
\* the result is 200 with the requested path itself as the repository, an
\* empty file, isFile false, and no .git entry under the repository
NoMarkerReturnsPath ==
    (pc = "resolved" /\ p # handlerDir /\ MarkerDirsOnPath = {})
        => /\ status = StatusOK
           /\ repository = p
           /\ file = sEmpty
           /\ ~isFile
           /\ ~isGit(repository)

\* C6 witness: a path two or more elements below the serving root resolved
\* with no .git entry on the way
NoMarkerWitness ==
    /\ pc = "resolved"
    /\ MarkerDirsOnPath = {}
    /\ Len(AbsElements(p)) >= Len(AbsElements(handlerDir)) + 2
    /\ i >= 2

\* C7: inside a directory that holds a .git entry and passed the gate, with
\* s the path below it: s under "blob/" gives 200, isFile and the rest of s
\* without a trailing "/"; s under "tree/" gives 200, not isFile and the rest
\* of s with its trailing "/", "./" when there is no rest; any other
\* non-empty s gives 404; an empty s gives 200 with an empty file
SuffixClassification ==
    (pc = "resolved" /\ approved # sEmpty) =>
        LET s == RelSuffix(p, repository)
            first == Head(Elements(s))
            rest == JoinElements(RestElements(s))
        IN  /\ approved = repository
            /\ IF s # sEmpty /\ first = sBlob
               THEN status = StatusOK /\ isFile /\ file = rest
               ELSE IF s # sEmpty /\ first = sTree
               THEN /\ status = StatusOK
                    /\ ~isFile
                    /\ file = IF rest = sEmpty THEN sDotSlash ELSE rest \o sSlash
               ELSE IF s # sEmpty
               THEN status = StatusNotFound
               ELSE status = StatusOK /\ ~isFile /\ file = sEmpty

\* C7 witness: a blob path with a rest below "blob/" was classified
SuffixClassificationWitness ==
    /\ pc = "resolved"
    /\ approved # sEmpty
    /\ isFile
    /\ file # sEmpty
    /\ status = StatusOK

\* C8 as claimed: CheckPermBits lets an entry through exactly when the class
\* the threshold selects has read and execute (a directory) or read (a file)
ThresholdSemantics ==
    (pc = "gated" /\ gate = "CheckPermBits") =>
        LET class == (info.perm \div ShiftLeft(1, 3 * Perms)) % 8
        IN  canServe <=> IF info.isDir THEN class \in {5, 7} ELSE class >= 4

\* C9: a request that reaches MakePage gets MakeDirPage when the repository
\* holds no .git entry, else the page of the first of "tree", "blob", "raw"
\* that occurs in "http://" + host + path + "/", else MakeGitPage; one page
\* per request
DispatchPrecedence ==
    (pc = "done" /\ served \notin {"cgi", "error"}) =>
        LET url == sHttp \o reqHost \o TrimRight(reqPath) \o sSlash
            has(w) == \E k \in 1..(Len(url) - Len(w) + 1) :
                          SubSeq(url, k, k + Len(w) - 1) = w
            isgit == SubSeq(AbsElements(repository),
                            Len(AbsElements(handlerDir)) + 1,
                            Len(AbsElements(repository))) \in git
        IN  /\ status = StatusOK
            /\ served = (IF ~isgit THEN "MakeDirPage"
                         ELSE IF has(sTree) THEN "MakeTreePage"
                         ELSE IF has(sBlob) THEN "MakeFilePage"
                         ELSE IF has(sRaw) THEN "MakeRawPage"
                         ELSE "MakeGitPage")

\* C9 witness: a URL with both "blob" and "raw" in it went to MakeFilePage
DispatchPrecedenceWitness ==
    /\ pc = "done"
    /\ served = "MakeFilePage"
    /\ Contains(reqPath, sRaw)
    /\ reqHost = sRaw

\* C10 as claimed: a directory rendered as a git repository was found by the
\* walk of SplitRepository and passed its gate in that resolution
GitViewsGated ==
    (pc = "done" /\ served \in GitViews) => approved = repository

\* C11: when the stat of the .git entry has succeeded and the stat of the
\* directory then fails, SplitRepository returns 500 at once: the cursor, the
\* suffix and the loop counter stay as they are, no gate is asked, and the
\* walk is over; a stat that succeeds never gives 500
StatFailureIsInternalError ==
    [][(pc = "found" /\ pc' # "found") =>
          IF ~Stat(repository).ok
          THEN /\ pc' = "resolved"
               /\ status' = StatusInternalServerError
               /\ repository' = repository
               /\ file' = file
               /\ i' = i
               /\ gate' = "none"
               /\ approved' = sEmpty
          ELSE status' # StatusInternalServerError]_vars

\* C11 witness: a resolution ended with 500 at a directory that was removed
\* after its .git entry had been seen
StatFailureWitness ==
    /\ pc = "resolved"
    /\ status = StatusInternalServerError
    /\ ~Stat(repository).ok
    /\ \E d \in gone : d \in git

\* the depth of the requested path below the serving root
WalkDepth == Len(AbsElements(p)) - Len(AbsElements(handlerDir))

\* the steps to the parent SplitRepository has taken: one at the start of
\* every pass but the first
WalkMoves == IF pc = "loop" /\ i > 0 THEN i - 1 ELSE i

\* C12: the walk of SplitRepository takes at most as many steps to the
\* parent as the requested path is deep below the serving root, each step
\* removes one element of the cursor, the cursor is never above the serving
\* root, and the walk ends with a status
TerminationBound ==
    pc \in {"loop", "found", "resolved"} =>
        /\ WalkMoves <= WalkDepth
        /\ i <= WalkDepth
        /\ UnderRoot(repository)
        /\ pc \in {"loop", "found"} =>
              Len(AbsElements(repository)) = Len(AbsElements(p)) - WalkMoves
        /\ pc = "resolved" =>
              status \in {StatusOK, StatusForbidden, StatusNotFound,
                          StatusInternalServerError}

\* C12 witness: a path three or more elements below the serving root was
\* resolved with exactly as many steps as it is deep
TerminationBoundWitness ==
    /\ pc = "resolved"
    /\ WalkDepth >= 3
    /\ i = WalkDepth

\* C13 as claimed: for a request SplitRepository resolved with 200 inside a
\* directory that passed its gate, the page MakePage makes is the one of the
\* resolver's result: the file page for a blob path, the tree page for a tree
\* path, the front page for an empty suffix
RouterAgreesWithResolver ==
    (pc = "done" /\ status = StatusOK /\ approved # sEmpty /\ approved = repository) =>
        served = (IF isFile THEN "MakeFilePage"
                  ELSE IF file # sEmpty THEN "MakeTreePage"
                  ELSE "MakeGitPage")
====
